---- MODULE Spec2Model ----
(***************************************************************************)
(* Model of the vector crate (src/lib.rs): the value type Vector2<T> with  *)
(* its constructor, indexed access and operator implementations.           *)
(*                                                                         *)
(* The scalar type T is instantiated, as in the crate's tests, with a      *)
(* signed fixed-width two's complement integer (i32 there, the range       *)
(* -TMax-1..TMax here).  Arithmetic overflow of such a T is not handled by *)
(* the crate: the build decides whether it panics (overflow checks on, the *)
(* debug profile) or wraps (overflow checks off, the release profile).     *)
(* Both builds are modelled; overflow_checks selects one per behaviour.    *)
(*                                                                         *)
(* A behaviour is a client thread that owns one vector v and repeatedly    *)
(* applies one operation of the crate to it, rebinding v to a vector       *)
(* result.  A panic ends the thread.                                       *)
(***************************************************************************)
EXTENDS Integers

\* Largest value of the scalar type T (i32::MAX in the tests, scaled down).
TMax == 3
\* Largest index passed to get (usize, scaled down).
MaxIndex == 3
\* The fixed length named by the out-of-bounds message of get.
VecLen == 2

VARIABLES
    overflow_checks,  \* build profile: TRUE = overflow panics, FALSE = wraps
    v,                \* the client's current vector (self of the next call)
    op,               \* name of the last operation applied
    pre,              \* self operand of the last operation
    arg,              \* other operand of the last operation
    out               \* outcome of the last operation

vars == <<overflow_checks, v, op, pre, arg, out>>

-----------------------------------------------------------------------------
(* The scalar type T *)

\* Smallest value of T: a two's complement range has one more negative value.
TMin == 0 - TMax - 1
\* Number of values of T.
TCard == TMax - TMin + 1
T == TMin..TMax
Index == 0..MaxIndex

\* Two's complement wrap-around of a mathematical integer into T.
Wrap(x) == ((x - TMin) % TCard) + TMin

Ok(x) == [tag |-> "ok", val |-> x]
Panic(m) == [tag |-> "panic", what |-> m]
IndexPanic(len, index) ==
    [tag |-> "panic", what |-> "index out of bounds", len |-> len, index |-> index]

\* Result of a primitive integer operation whose exact value is r.
TResult(r, m) ==
    IF r \in T THEN Ok(r)
    ELSE IF overflow_checks THEN Panic(m)
    ELSE Ok(Wrap(r))

TAdd(x, y) == TResult(x + y, "attempt to add with overflow")
TSub(x, y) == TResult(x - y, "attempt to subtract with overflow")
TMul(x, y) == TResult(x * y, "attempt to multiply with overflow")
TNeg(x) == TResult(0 - x, "attempt to negate with overflow")

-----------------------------------------------------------------------------
(* Vector2<T> *)

Vector2 == [e0 : T, e1 : T]

\* Builds the struct from two evaluated field expressions, left to right;
\* the first panic unwinds out of the enclosing function unchanged.
MkVector2(r0, r1) ==
    IF r0.tag = "panic" THEN r0
    ELSE IF r1.tag = "panic" THEN r1
    ELSE Ok([e0 |-> r0.val, e1 |-> r1.val])

new(e0, e1) == [e0 |-> e0, e1 |-> e1]

\* Mutant of get: the catch-all arm returns e1 instead of panicking.
get_catch_all_e1(self, index) ==
    IF index = 0 THEN Ok(self.e0) ELSE Ok(self.e1)

\* Mutant of get: the arm for index 1 is missing.
get_no_arm_1(self, index) ==
    IF index = 0 THEN Ok(self.e0) ELSE IndexPanic(VecLen, index)

get(self, index) ==
    IF index = 0 THEN Ok(self.e0)
    ELSE IF index = 1 THEN Ok(self.e1)
    ELSE IndexPanic(VecLen, index)

\* Mutant of add: e1 is summed with the wrong component of other.
add_mixed(self, other) ==
    MkVector2(TAdd(self.e0, other.e0), TAdd(self.e1, other.e0))

add(self, other) ==
    MkVector2(TAdd(self.e0, other.e0), TAdd(self.e1, other.e1))

\* Mutant of dot: the second product takes the wrong component of other.
dot_mixed(self, other) ==
    LET p0 == TMul(self.e0, other.e0)
        p1 == TMul(self.e1, other.e0)
    IN  IF p0.tag = "panic" THEN p0
        ELSE IF p1.tag = "panic" THEN p1
        ELSE TAdd(p0.val, p1.val)

\* Mutant of dot: the second product multiplies self.e1 by itself.
dot_self_e1(self, other) ==
    LET p0 == TMul(self.e0, other.e0)
        p1 == TMul(self.e1, self.e1)
    IN  IF p0.tag = "panic" THEN p0
        ELSE IF p1.tag = "panic" THEN p1
        ELSE TAdd(p0.val, p1.val)

dot(self, other) ==
    LET p0 == TMul(self.e0, other.e0)
        p1 == TMul(self.e1, other.e1)
    IN  IF p0.tag = "panic" THEN p0
        ELSE IF p1.tag = "panic" THEN p1
        ELSE TAdd(p0.val, p1.val)

\* Mutant of mul_scalar: e1 is copied unscaled.
mul_scalar_e0_only(self, scalar) ==
    MkVector2(TMul(self.e0, scalar), Ok(self.e1))

mul_scalar(self, scalar) ==
    MkVector2(TMul(self.e0, scalar), TMul(self.e1, scalar))

\* Mutant of sub: the operands are swapped.
sub_swapped(self, other) ==
    MkVector2(TSub(other.e0, self.e0), TSub(other.e1, self.e1))

\* Mutant of sub: e1 is copied without subtracting.
sub_e0_only(self, other) ==
    MkVector2(TSub(self.e0, other.e0), Ok(self.e1))

sub(self, other) ==
    MkVector2(TSub(self.e0, other.e0), TSub(self.e1, other.e1))

\* Mutant of neg: e1 is copied without negating.
neg_e0_only(self) ==
    MkVector2(TNeg(self.e0), Ok(self.e1))

\* Mutant of neg: e1 is computed from e0.
neg_e0_twice(self) ==
    MkVector2(TNeg(self.e0), TNeg(self.e0))

neg(self) ==
    MkVector2(TNeg(self.e0), TNeg(self.e1))

-----------------------------------------------------------------------------
(* The client thread *)

Running == out.tag = "ok"

\* A call whose result is a vector: the client rebinds v to it.
VecCall(name, other, r) ==
    /\ op' = name
    /\ pre' = v
    /\ arg' = other
    /\ out' = r
    /\ v' = IF r.tag = "ok" THEN r.val ELSE v
    /\ UNCHANGED overflow_checks

\* A call whose result is a scalar: v is only copied into the call.
ScalarCall(name, other, r) ==
    /\ op' = name
    /\ pre' = v
    /\ arg' = other
    /\ out' = r
    /\ UNCHANGED <<v, overflow_checks>>

Init ==
    /\ overflow_checks \in BOOLEAN
    /\ \E e0 \in T, e1 \in T :
          /\ v = new(e0, e1)
          /\ pre = v
          /\ arg = new(e0, e1)
          /\ out = Ok(v)
    /\ op = "new"

New ==
    /\ Running
    /\ \E e0 \in T, e1 \in T :
          /\ v' = new(e0, e1)
          /\ op' = "new"
          /\ pre' = v'
          /\ arg' = v'
          /\ out' = Ok(v')
    /\ UNCHANGED overflow_checks

Get == Running /\ \E index \in Index : ScalarCall("get", index, get(v, index))

Add == Running /\ \E other \in Vector2 : VecCall("add", other, add(v, other))

Dot == Running /\ \E other \in Vector2 : ScalarCall("dot", other, dot(v, other))

MulScalar == Running /\ \E scalar \in T : VecCall("mul_scalar", scalar, mul_scalar(v, scalar))

Sub == Running /\ \E other \in Vector2 : VecCall("sub", other, sub(v, other))

Neg == Running /\ VecCall("neg", v, neg(v))

Next == New \/ Get \/ Add \/ Dot \/ MulScalar \/ Sub \/ Neg

Spec == Init /\ [][Next]_vars

-----------------------------------------------------------------------------
(* Properties *)

Arithmetic == {"add", "sub", "neg", "mul_scalar", "dot"}

\* The panics among a set of outcomes of T's operations.
TFaults(S) == {r \in S : r.tag = "panic"}

\* C1: get(0) returns e0, get(1) returns e1, and get(n) for every other n
\* returns no value but panics with the out-of-bounds message naming the
\* length 2 and the index n.
C1_Get ==
    op = "get" =>
        /\ arg = 0 => out = Ok(pre.e0)
        /\ arg = 1 => out = Ok(pre.e1)
        /\ arg \notin {0, 1} =>
              /\ out.tag = "panic"
              /\ out.what = "index out of bounds"
              /\ out.len = 2
              /\ out.index = arg

C1_Witness ==
    /\ op = "get"
    /\ pre = new(1, 2)
    /\ arg = 2
    /\ out = IndexPanic(2, 2)

\* C2: a + b is the elementwise sum under T's addition: e0 from the two e0,
\* e1 from the two e1; when it yields no vector, the fault is that of one of
\* the two component additions.
C2_AddElementwise ==
    op = "add" =>
        /\ out.tag = "ok" =>
              /\ TAdd(pre.e0, arg.e0) = Ok(out.val.e0)
              /\ TAdd(pre.e1, arg.e1) = Ok(out.val.e1)
              /\ v = out.val
        /\ out.tag = "panic" =>
              out \in TFaults({TAdd(pre.e0, arg.e0), TAdd(pre.e1, arg.e1)})

C2_Witness ==
    /\ op = "add"
    /\ pre = new(2, 1)
    /\ arg = new(-1, 2)
    /\ out = Ok(new(1, 3))

\* C3: a - b is the elementwise difference under T's subtraction with a as
\* the minuend.
C3_SubElementwise ==
    op = "sub" =>
        /\ out.tag = "ok" =>
              /\ TSub(pre.e0, arg.e0) = Ok(out.val.e0)
              /\ TSub(pre.e1, arg.e1) = Ok(out.val.e1)
              /\ v = out.val
        /\ out.tag = "panic" =>
              out \in TFaults({TSub(pre.e0, arg.e0), TSub(pre.e1, arg.e1)})

C3_Witness ==
    /\ op = "sub"
    /\ pre = new(3, 2)
    /\ arg = new(2, 3)
    /\ out = Ok(new(1, -1))

\* C4: -a is the vector of both components negated under T's negation.
C4_NegElementwise ==
    op = "neg" =>
        /\ out.tag = "ok" =>
              /\ TNeg(pre.e0) = Ok(out.val.e0)
              /\ TNeg(pre.e1) = Ok(out.val.e1)
              /\ v = out.val
        /\ out.tag = "panic" =>
              out \in TFaults({TNeg(pre.e0), TNeg(pre.e1)})

C4_Witness ==
    /\ op = "neg"
    /\ pre = new(1, -1)
    /\ out = Ok(new(-1, 1))

\* C5: the vector-by-vector product is a scalar of T, not a vector, equal to
\* a.e0*b.e0 + a.e1*b.e1 under T's multiplication and addition.
C5_DotScalar ==
    op = "dot" =>
        LET p0 == TMul(pre.e0, arg.e0)
            p1 == TMul(pre.e1, arg.e1)
        IN  /\ out.tag = "ok" =>
                  /\ out.val \in T
                  /\ p0.tag = "ok"
                  /\ p1.tag = "ok"
                  /\ TAdd(p0.val, p1.val) = out
                  /\ out.val = Wrap(pre.e0 * arg.e0 + pre.e1 * arg.e1)
                  /\ v = pre
            /\ out.tag = "panic" =>
                  out \in TFaults({p0, p1,
                                   TAdd(Wrap(pre.e0 * arg.e0), Wrap(pre.e1 * arg.e1))})

C5_Witness ==
    /\ op = "dot"
    /\ pre = new(1, 2)
    /\ arg = new(-1, 2)
    /\ out = Ok(3)

\* C6: the vector-by-scalar product is the vector of each component
\* multiplied by s under T's multiplication.
C6_ScalarMultiply ==
    op = "mul_scalar" =>
        /\ out.tag = "ok" =>
              /\ TMul(pre.e0, arg) = Ok(out.val.e0)
              /\ TMul(pre.e1, arg) = Ok(out.val.e1)
              /\ v = out.val
        /\ out.tag = "panic" =>
              out \in TFaults({TMul(pre.e0, arg), TMul(pre.e1, arg)})

C6_Witness ==
    /\ op = "mul_scalar"
    /\ pre = new(1, -1)
    /\ arg = 2
    /\ out = Ok(new(2, -2))

\* C7 as stated: for every a over a signed fixed-width integer type, -a
\* yields a vector and negating that vector yields a.
C7_NegInvolutionAll ==
    op = "neg" => (out.tag = "ok" /\ neg(v) = Ok(pre))

\* C7 as amended: whenever -a does not overflow, -(-a) == a componentwise;
\* -a overflows only in a build with overflow checks and only when a
\* component of a is the smallest value of T, and then it panics.
C7_NegInvolution ==
    op = "neg" =>
        /\ out.tag = "ok" => neg(v) = Ok(pre)
        /\ out.tag = "panic" => (overflow_checks /\ TMin \in {pre.e0, pre.e1})
        /\ (~overflow_checks \/ TMin \notin {pre.e0, pre.e1}) => out.tag = "ok"

C7_Witness ==
    /\ op = "neg"
    /\ pre = new(TMax, -1)
    /\ out.tag = "ok"
    /\ neg(v) = Ok(pre)

\* C8 as stated: for all a, b over an integer type, a - b yields a vector
\* and adding b to it yields a.
C8_SubAddRoundTripAll ==
    op = "sub" => (out.tag = "ok" /\ add(v, arg) = Ok(pre))

\* C8 as amended: whenever a - b does not overflow, (a - b) + b == a
\* componentwise; a - b overflows only in a build with overflow checks and
\* only when a component difference leaves the range of T, and then it
\* panics.
C8_SubAddRoundTrip ==
    op = "sub" =>
        LET fits == (pre.e0 - arg.e0) \in T /\ (pre.e1 - arg.e1) \in T
        IN  /\ out.tag = "ok" => add(v, arg) = Ok(pre)
            /\ out.tag = "panic" => (overflow_checks /\ ~fits)
            /\ (~overflow_checks \/ fits) => out.tag = "ok"

C8_Witness ==
    /\ op = "sub"
    /\ pre = new(3, 2)
    /\ arg = new(1, -1)
    /\ out.tag = "ok"
    /\ add(v, arg) = Ok(pre)

\* C9: the dot product is commutative: a * b and b * a have the same
\* outcome, the same scalar or the same fault of T.
C9_DotCommutative ==
    op = "dot" => dot(arg, pre) = out

C9_Witness ==
    /\ op = "dot"
    /\ pre = new(2, 1)
    /\ arg = new(1, -1)
    /\ out = Ok(1)
    /\ dot(arg, pre) = out

\* C10: the out-of-bounds panic comes only from get with an index outside
\* {0,1}; construction and in-range get never fault; an arithmetic operation
\* faults only in a build with overflow checks, and then its fault is the
\* unchanged panic of one of T's own component operations.
C10_SoleFailurePath ==
    /\ op = "new" => out.tag = "ok"
    /\ (op = "get" /\ arg \in {0, 1}) => out.tag = "ok"
    /\ out.tag = "panic" =>
          \/ op = "get" /\ arg \notin {0, 1} /\ out = IndexPanic(VecLen, arg)
          \/ /\ op \in Arithmetic
             /\ overflow_checks
             /\ out.what # "index out of bounds"
             /\ op = "add" =>
                   out \in TFaults({TAdd(pre.e0, arg.e0), TAdd(pre.e1, arg.e1)})
             /\ op = "sub" =>
                   out \in TFaults({TSub(pre.e0, arg.e0), TSub(pre.e1, arg.e1)})
             /\ op = "neg" =>
                   out \in TFaults({TNeg(pre.e0), TNeg(pre.e1)})
             /\ op = "mul_scalar" =>
                   out \in TFaults({TMul(pre.e0, arg), TMul(pre.e1, arg)})
             /\ op = "dot" =>
                   out \in TFaults({TMul(pre.e0, arg.e0), TMul(pre.e1, arg.e1),
                                    TAdd(Wrap(pre.e0 * arg.e0), Wrap(pre.e1 * arg.e1))})
    /\ (op \in Arithmetic /\ ~overflow_checks) => out.tag = "ok"

C10_Witness ==
    /\ op = "dot"
    /\ overflow_checks
    /\ pre = new(2, 1)
    /\ arg = new(1, 2)
    /\ out = Panic("attempt to add with overflow")

====
